---- MODULE Spec2Model ----
(***************************************************************************)
(* resalloc-kubernetes (src/src/main.rs): allocation (Add) and teardown    *)
(* (Delete) of one pod, optionally with a persistent volume claim, against *)
(* a Kubernetes namespace.                                                 *)
(*                                                                         *)
(* Strings are sequences of atoms: "app=x" is <<"app", "=", "x">>, so that *)
(* split('=') is computed and not assumed.  Option values are sequences of *)
(* length 0 (None) or 1 (Some).  Resource names are tuples of their parts: *)
(* format!("resalloc-{}", uuid) is <<"resalloc", uuid>>.                   *)
(***************************************************************************)
EXTENDS Integers, Sequences, FiniteSets, TLC

VARIABLES pods, claims, inv, nInv

vars == <<pods, claims, inv, nInv>>

\* ---------------------------------------------------------------- bounds
MaxInvocations == 2

\* the longest list of --additional-labels entries a request carries
MaxLabels == 2

\* ------------------------------------------------------------ primitives
None == <<>>

Some(v) == <<v>>

IsSome(o) == Len(o) = 1

Unwrap(o) == o[1]

Str(a) == <<a>>

Eq == "="

Range(s) == {s[i] : i \in 1..Len(s)}

\* the labels of RAW_POD / the label delete_resource looks for
MARKER == Str("resalloc-kubernetes")

APP == Str("app")

HAS_VOLUME == Str("has_volume")

\* bool::to_string
BoolStr(b) == IF b THEN Str("true") ELSE Str("false")

\* str::split('='): the parts between the separators, empty parts included
RECURSIVE SplitFrom(_, _, _, _)
SplitFrom(s, i, cur, acc) ==
    IF i > Len(s) THEN Append(acc, cur)
    ELSE IF s[i] = Eq THEN SplitFrom(s, i + 1, <<>>, Append(acc, cur))
    ELSE SplitFrom(s, i + 1, Append(cur, s[i]), acc)

Split(s) == SplitFrom(s, 1, <<>>, <<>>)

Insert_KeepExisting(m, k, v) ==
    [x \in DOMAIN m \cup {k} |-> IF x \in DOMAIN m THEN m[x] ELSE v]

\* BTreeMap::insert
Insert(m, k, v) == [x \in DOMAIN m \cup {k} |-> IF x = k THEN v ELSE m[x]]

EmptyMap == [x \in {} |-> <<>>]

\* BTreeMap::get
Get(m, k) == IF k \in DOMAIN m THEN Some(m[k]) ELSE None

\* the loop body shared by the label and the node selector parsing
RECURSIVE InsertPairs(_, _, _)
InsertPairs(m, entries, i) ==
    IF i > Len(entries) THEN m
    ELSE LET pair == Split(entries[i])
         IN  InsertPairs(IF Len(pair) = 2 THEN Insert(m, pair[1], pair[2]) ELSE m,
                         entries, i + 1)

\* ------------------------------------------------------------- manifests
get_pvc_name(namespace, additional_volume_class) ==
    <<"resalloc", namespace, additional_volume_class>>

generate_pvc_resource(add_command, namespace, pvc_name) ==
    [name         |-> pvc_name,
     namespace    |-> namespace,
     labels       |-> Insert(EmptyMap, APP, MARKER),
     accessModes  |-> <<"ReadWriteOnce">>,
     storage      |-> Unwrap(add_command.additional_volume_size),
     storageClassName |-> Unwrap(add_command.additional_volume_class)]

generate_volume_secret_str(volume, secret) ==
    [kind |-> "secret", name |-> volume, secretName |-> secret]

generate_volume_str(claim_name, volume_name) ==
    [kind |-> "claim", name |-> volume_name, claimName |-> claim_name]

generate_volume_mount_secret_str(mount_path, sub_path, name) ==
    [kind |-> "secret", mountPath |-> mount_path, name |-> name, subPath |-> sub_path]

\* A mount path that carries YAML of its own.  The templates are rendered
\* without escaping of line breaks, so this text closes the mount entry
\* with a name of its own and goes on with a key of the pod spec; the
\* block scalar swallows the name line that RAW_VOLUME_MOUNT_PVC appends.
InjectedMountPath == "/mnt\n        name: v\n  nodeSelector:\n    k: |"

\* the mount entry the pod has after serde_yaml::from_str
generate_volume_mount_pvc_str(mount_path, name) ==
    IF mount_path = InjectedMountPath
    THEN [kind |-> "claim", mountPath |-> "/mnt", name |-> "v"]
    ELSE [kind |-> "claim", mountPath |-> mount_path, name |-> name]

\* spec.nodeSelector of the rendered pod: RAW_POD has none, only text of
\* the request that is YAML itself can put one there
RenderedNodeSelector(add_command, has_volume) ==
    IF has_volume /\ add_command.additional_volume_mount_path = <<InjectedMountPath>>
    THEN <<(<<"k">> :> <<"name">>)>>
    ELSE <<>>

generate_volume_mount_str_ClaimFirst(secret_mount, pvc_mount) ==
    IF secret_mount = <<>> /\ pvc_mount = <<>> THEN None
    ELSE Some(pvc_mount \o secret_mount)

\* an empty rendering leaves the field out of the parsed pod
generate_volume_mount_str(secret_mount, pvc_mount) ==
    IF secret_mount = <<>> /\ pvc_mount = <<>> THEN None
    ELSE Some(secret_mount \o pvc_mount)

create_simple_pod_yaml(add_command, namespace, name, pvc_name, has_volume) ==
    LET secret == add_command.secret
        vol_secret == IF IsSome(secret)
                      THEN <<generate_volume_secret_str(Unwrap(secret).name, Unwrap(secret).name)>>
                      ELSE <<>>
        vol_mount_secret == IF IsSome(secret)
                            THEN <<generate_volume_mount_secret_str(Unwrap(secret).mount_path,
                                        Unwrap(secret).sub_path, Unwrap(secret).name)>>
                            ELSE <<>>
        vol == IF has_volume
               THEN Append(vol_secret, generate_volume_str(pvc_name, pvc_name))
               ELSE vol_secret
        vol_mount_pvc == IF has_volume
                         THEN <<generate_volume_mount_pvc_str(
                                    Unwrap(add_command.additional_volume_mount_path), pvc_name)>>
                         ELSE <<>>
    IN  [name          |-> name,
         namespace     |-> namespace,
         labels        |-> Some(Insert(Insert(EmptyMap, APP, MARKER),
                                       HAS_VOLUME, BoolStr(has_volume))),
         volumes       |-> IF Len(vol) # 0 THEN Some(vol) ELSE None,
         volumeMounts  |-> generate_volume_mount_str(vol_mount_secret, vol_mount_pvc),
         node_selector |-> RenderedNodeSelector(add_command, has_volume)]

generate_pod_resource(add_command, namespace, name, pvc_name, create_volume) ==
    LET yaml == create_simple_pod_yaml(add_command, namespace, name, pvc_name, create_volume)
        labelled ==
            IF add_command.additional_labels # <<>> /\ IsSome(yaml.labels)
            THEN [yaml EXCEPT !.labels =
                      Some(InsertPairs(Unwrap(yaml.labels), add_command.additional_labels, 1))]
            ELSE yaml
    IN  IF add_command.node_selector # <<>>
        THEN IF IsSome(labelled.node_selector)
             THEN [ok |-> FALSE, pod |-> labelled]
             ELSE [ok |-> TRUE,
                   pod |-> [labelled EXCEPT !.node_selector =
                               Some(InsertPairs(EmptyMap, add_command.node_selector, 1))]]
        ELSE [ok |-> TRUE, pod |-> labelled]

\* ------------------------------------------------------------ the cluster
IPs == {"ip1", "ip2"}

NAMESPACE == "default"

\* PodStatus as far as the program reads it: phase (is_pod_running) and pod_ip
Statuses ==
    {None,
     Some([phase |-> "Pending", pod_ip |-> None]),
     Some([phase |-> "Running", pod_ip |-> None])}
    \cup {Some([phase |-> "Running", pod_ip |-> Some(ip)]) : ip \in IPs}

\* pods of the namespace that this program did not create
ForeignPods ==
    (<<"web">>  :> [labels  |-> Some(Insert(Insert(EmptyMap, APP, Str("web")),
                                            HAS_VOLUME, Str("true"))),
                    volumes |-> None,
                    status  |-> Some([phase |-> "Running", pod_ip |-> Some("ip1")])])
    @@
    (<<"bare">> :> [labels  |-> None,
                    volumes |-> None,
                    status  |-> Some([phase |-> "Running", pod_ip |-> Some("ip2")])])

Restrict(f, S) == [x \in S |-> f[x]]

\* conditions::is_pod_running
is_pod_running(name) ==
    /\ name \in DOMAIN pods
    /\ IsSome(pods[name].status)
    /\ Unwrap(pods[name].status).phase = "Running"

\* the field selector status.podIP=<address>
MatchesAddress(name, address) ==
    /\ IsSome(pods[name].status)
    /\ Unwrap(pods[name].status).pod_ip = Some(address)

Perms(S) == {s \in [1..Cardinality(S) -> S] : Range(s) = S}

\* ------------------------------------------------------------ invocations
Slots == {1, 2}

LabelChoices == {<<>>, <<<<"app", Eq, "other">>>>}

AddCommands ==
    [kind : {"add"}, namespace : {NAMESPACE},
     additional_volume_size : {None, Some("10Gi")},
     additional_volume_class : {None, Some("c1")},
     additional_volume_mount_path : {None, Some("/mnt")},
     dry_run : BOOLEAN,
     secret : {None},
     additional_labels : LabelChoices,
     node_selector : {<<>>}]

DeleteCommands == [kind : {"delete"}, namespace : {NAMESPACE}, name : IPs]

\* requests for the manifest builder: the --secret value after
\* parse_volume_mount, and label entries well formed and not
Secret1 == [mount_path |-> "/crt", name |-> "sec", sub_path |-> "crt"]

LabelEntries ==
    {<<"novalue">>, <<Eq>>, <<"a", Eq, "b", Eq, "c">>, <<"k", Eq>>,
     <<"app", Eq, "other">>, <<"has_volume", Eq, "true">>,
     <<"k", Eq, "v">>, <<"k", Eq, "w">>}

LabelLists == UNION {[1..n -> LabelEntries] : n \in 0..MaxLabels}

AllVolume == [size |-> Some("10Gi"), class |-> Some("c1"), mount |-> Some("/mnt")]

NoVolume == [size |-> None, class |-> None, mount |-> None]

VolumeChoices ==
    [size : {None, Some("10Gi")}, class : {None, Some("c1")}, mount : {None, Some("/mnt")}]

AddCommand(vol, dry_run, secret, labels, selector) ==
    [kind |-> "add", namespace |-> NAMESPACE,
     additional_volume_size |-> vol.size,
     additional_volume_class |-> vol.class,
     additional_volume_mount_path |-> vol.mount,
     dry_run |-> dry_run,
     secret |-> secret,
     additional_labels |-> labels,
     node_selector |-> selector]

BuilderCommands ==
    {AddCommand(vol, FALSE, None, labels, <<>>) :
        vol \in {NoVolume, AllVolume}, labels \in LabelLists}
    \cup
    {AddCommand(vol, dry_run, secret, <<>>, selector) :
        vol \in VolumeChoices, dry_run \in BOOLEAN, secret \in {None, Some(Secret1)},
        selector \in {<<>>, <<<<"disk", Eq, "ssd">>, <<"novalue">>>>}}
    \cup
    {AddCommand([AllVolume EXCEPT !.mount = Some(InjectedMountPath)], dry_run, None, <<>>,
                selector) :
        dry_run \in BOOLEAN, selector \in {<<>>, <<<<"disk", Eq, "ssd">>>>}}

Running == [status |-> "running", err |-> "", out |-> None]

Ok(out) == [status |-> "ok", err |-> "", out |-> out]

Err(e) == [status |-> "err", err |-> e, out |-> None]

Idle ==
    [pc |-> "idle", cmd |-> <<>>, id |-> 0, name |-> <<>>,
     additional_volume |-> FALSE, pvc_name |-> <<>>, pvc |-> None, pod |-> None,
     cause |-> "", current |-> None, items |-> <<>>, idx |-> 0, log |-> <<>>,
     result |-> Running]

Call(op, name, ok) == [op |-> op, name |-> name, ok |-> ok]

\* the function returns: nothing of the invocation runs afterwards
Return(p, log, result) ==
    inv' = [inv EXCEPT ![p].pc = "done", ![p].log = log, ![p].result = result]

Init ==
    /\ \E F \in SUBSET DOMAIN ForeignPods : pods = Restrict(ForeignPods, F)
    /\ claims = {}
    /\ inv = [p \in Slots |-> Idle]
    /\ nInv = 0

\* main: one run of the command line tool
Invoke(p, cmd) ==
    /\ inv[p].pc \in {"idle", "done"}
    /\ nInv < MaxInvocations
    /\ nInv' = nInv + 1
    /\ inv' = [inv EXCEPT ![p] = [Idle EXCEPT !.pc = IF cmd.kind = "add" THEN "build" ELSE "list",
                                              !.cmd = cmd, !.id = nInv + 1]]
    /\ UNCHANGED <<pods, claims>>

\* the kubelet and the control plane report on a pod of this program
UpdateStatus(name, status) ==
    /\ name \in DOMAIN pods \ DOMAIN ForeignPods
    /\ pods[name].status # status
    /\ pods' = [pods EXCEPT ![name].status = status]
    /\ UNCHANGED <<claims, inv, nInv>>

\* ------------------------------------------------------------------- Add
\* a volume that is dropped when the request also mounts a secret
HasAllVolumeFields_UnlessSecret(cmd) ==
    /\ IsSome(cmd.additional_volume_size)
    /\ IsSome(cmd.additional_volume_class)
    /\ IsSome(cmd.additional_volume_mount_path)
    /\ ~IsSome(cmd.secret)

\* the three is_some() tests that set additional_volume
HasAllVolumeFields(cmd) ==
    /\ IsSome(cmd.additional_volume_size)
    /\ IsSome(cmd.additional_volume_class)
    /\ IsSome(cmd.additional_volume_mount_path)

\* format!("resalloc-{}", Uuid::new_v4()): a token no other invocation draws
NewName(id) == <<"resalloc", ToString(id)>>

\* a dry run that is honoured only for a request without a volume
DryRunReturns_NoVolumeOnly(cmd) ==
    cmd.dry_run /\ ~IsSome(cmd.additional_volume_size)

\* an Err of the builder that is dropped
BuildRejected_Never(built) == FALSE

\* generate_pod_resource(..).await? : an Err of the builder is returned
BuildRejected(built) == ~built.ok

\* if add_command.dry_run { ... return Ok(()) }
DryRunReturns(cmd) == cmd.dry_run

\* if let Some(p) = pvc { create } comes before pods_api.create
FirstCreate(pvc) == IF IsSome(pvc) THEN "create_pvc" ELSE "create_pod"

\* a create of the claim whose error is dropped instead of returned
AfterCreatePvc_IgnoreError(success) == "create_pod"

\* a failed create of the claim that is answered with the rollback
AfterCreatePvc_RollBack(success) == IF success THEN "create_pod" ELSE "cleanup_pod"

\* a failed create of the claim that is tried again
AfterCreatePvc_Retry(success) == IF success THEN "create_pod" ELSE "create_pvc"

\* pvc_api.create(..).await? : the pod is created only after an Ok
AfterCreatePvc(success) == IF success THEN "create_pod" ELSE "done"

\* the name cleanup hands to delete_pvc_by_name
CleanupPvcName(i) == i.name

\* generate_new_resource up to the first gateway call
AddBuild(p, connect_ok) ==
    /\ inv[p].pc = "build"
    /\ LET cmd == inv[p].cmd
           namespace == cmd.namespace
           additional_volume == HasAllVolumeFields(cmd)
           name == NewName(inv[p].id)
           pvc_name == IF additional_volume
                       THEN get_pvc_name(namespace, Unwrap(cmd.additional_volume_class))
                       ELSE <<>>
           pvc == IF additional_volume
                  THEN Some(generate_pvc_resource(cmd, namespace, pvc_name))
                  ELSE None
           built == generate_pod_resource(cmd, namespace, name, pvc_name, additional_volume)
           built_inv == [inv[p] EXCEPT !.name = name,
                                       !.additional_volume = additional_volume,
                                       !.pvc_name = pvc_name,
                                       !.pvc = pvc,
                                       !.pod = IF built.ok THEN Some(built.pod) ELSE None]
       IN  inv' = [inv EXCEPT ![p] =
                IF BuildRejected(built)
                THEN [built_inv EXCEPT !.pc = "done", !.result = Err("node_selector")]
                ELSE IF DryRunReturns(cmd)
                THEN [built_inv EXCEPT !.pc = "done", !.result = Ok(None)]
                ELSE IF ~connect_ok
                THEN [built_inv EXCEPT !.pc = "done", !.result = Err("client")]
                ELSE [built_inv EXCEPT !.pc = FirstCreate(pvc)]]
    /\ UNCHANGED <<pods, claims, nInv>>

\* pvc_api.create(&pp, &p).await?
AddCreatePvc(p, ok) ==
    /\ inv[p].pc = "create_pvc"
    /\ LET name == Unwrap(inv[p].pvc).name
           success == ok /\ name \notin claims
           log == Append(inv[p].log, Call("create_pvc", name, success))
       IN  /\ claims' = IF success THEN claims \cup {name} ELSE claims
           /\ IF AfterCreatePvc(success) = "done"
              THEN Return(p, log, Err("create_pvc"))
              ELSE inv' = [inv EXCEPT ![p].pc = AfterCreatePvc(success), ![p].log = log]
    /\ UNCHANGED <<pods, nInv>>

\* pods_api.create(&pp, &pod).await?
AddCreatePod(p, ok) ==
    /\ inv[p].pc = "create_pod"
    /\ LET name == inv[p].name
           pod == Unwrap(inv[p].pod)
           success == ok /\ name \notin DOMAIN pods
           log == Append(inv[p].log, Call("create_pod", name, success))
       IN  /\ pods' = IF success
                      THEN (name :> [labels |-> pod.labels, volumes |-> pod.volumes,
                                     status |-> None]) @@ pods
                      ELSE pods
           /\ IF success
              THEN inv' = [inv EXCEPT ![p].pc = "wait", ![p].log = log]
              ELSE Return(p, log, Err("create_pod"))
    /\ UNCHANGED <<claims, nInv>>

\* a wait without a timeout: it ends only when the pod is running
AddWait_NoTimeout(p, outcome) ==
    /\ inv[p].pc = "wait"
    /\ outcome = "ready" /\ is_pod_running(inv[p].name)
    /\ inv' = [inv EXCEPT ![p].log = Append(inv[p].log, Call("wait", inv[p].name, TRUE)),
                          ![p].pc = "get"]
    /\ UNCHANGED <<pods, claims, nInv>>

\* timeout(Duration::from_secs(timeout), await_condition(.., is_pod_running()))
AddWait(p, outcome) ==
    /\ inv[p].pc = "wait"
    /\ outcome = "ready" => is_pod_running(inv[p].name)
    /\ LET log == Append(inv[p].log, Call("wait", inv[p].name, outcome = "ready"))
       IN  inv' = [inv EXCEPT ![p].log = log,
                              ![p].pc = IF outcome = "ready" THEN "get" ELSE "cleanup_pod",
                              ![p].cause = IF outcome = "ready" THEN "" ELSE outcome]
    /\ UNCHANGED <<pods, claims, nInv>>

\* pods_api.get(&name) and the test of status.pod_ip
AddGet(p, ok) ==
    /\ inv[p].pc = "get"
    /\ LET name == inv[p].name
           success == ok /\ name \in DOMAIN pods
           log == Append(inv[p].log, Call("get", name, success))
       IN  IF ~success
           THEN inv' = [inv EXCEPT ![p].log = log, ![p].pc = "cleanup_pod",
                                   ![p].cause = "get_error"]
           ELSE LET status == pods[name].status
                IN  IF IsSome(status) /\ IsSome(Unwrap(status).pod_ip)
                    THEN inv' = [inv EXCEPT ![p].log = log, ![p].pc = "done",
                                            ![p].current = Some(pods[name]),
                                            ![p].result = Ok(Unwrap(status).pod_ip)]
                    ELSE inv' = [inv EXCEPT ![p].log = log, ![p].pc = "cleanup_pod",
                                            ![p].current = Some(pods[name]),
                                            ![p].cause = "ip_empty"]
    /\ UNCHANGED <<pods, claims, nInv>>

\* a cleanup that goes on to the claim after a failed pod delete
CleanupPod_ClaimAnyway(p, ok) ==
    /\ inv[p].pc = "cleanup_pod"
    /\ LET name == inv[p].name
           success == ok /\ name \in DOMAIN pods
           log == Append(inv[p].log, Call("delete_pod", name, success))
       IN  /\ pods' = IF success THEN Restrict(pods, DOMAIN pods \ {name}) ELSE pods
           /\ IF inv[p].additional_volume
              THEN inv' = [inv EXCEPT ![p].log = log, ![p].pc = "cleanup_pvc"]
              ELSE Return(p, log, Err(IF success THEN inv[p].cause ELSE "delete_pod"))
    /\ UNCHANGED <<claims, nInv>>

\* cleanup: delete_pod_by_name(pods_api, name).await?
CleanupPod(p, ok) ==
    /\ inv[p].pc = "cleanup_pod"
    /\ LET name == inv[p].name
           success == ok /\ name \in DOMAIN pods
           log == Append(inv[p].log, Call("delete_pod", name, success))
       IN  /\ pods' = IF success THEN Restrict(pods, DOMAIN pods \ {name}) ELSE pods
           /\ IF ~success THEN Return(p, log, Err("delete_pod"))
              ELSE IF inv[p].additional_volume
              THEN inv' = [inv EXCEPT ![p].log = log, ![p].pc = "cleanup_pvc"]
              ELSE Return(p, log, Err(inv[p].cause))
    /\ UNCHANGED <<claims, nInv>>

\* cleanup: if additional_volume { delete_pvc_by_name(pvc_api, name).await? }
CleanupPvc(p, ok) ==
    /\ inv[p].pc = "cleanup_pvc"
    /\ LET name == CleanupPvcName(inv[p])
           success == ok /\ name \in claims
           log == Append(inv[p].log, Call("delete_pvc", name, success))
       IN  /\ claims' = IF success THEN claims \ {name} ELSE claims
           /\ IF ~success THEN Return(p, log, Err("delete_pvc"))
              ELSE Return(p, log, Err(inv[p].cause))
    /\ UNCHANGED <<pods, nInv>>

\* ---------------------------------------------------------------- Delete
\* an ownership test that only asks for the app label to be there
IsOwned_AnyApp(labels) == IsSome(labels) /\ APP \in DOMAIN Unwrap(labels)

\* an ownership test that takes a pod with further labels for foreign
IsOwned_BaseLabelsOnly(labels) ==
    /\ IsSome(labels)
    /\ Get(Unwrap(labels), APP) = Some(MARKER)
    /\ DOMAIN Unwrap(labels) = {APP, HAS_VOLUME}

\* labels.get("app") == "resalloc-kubernetes", on a pod that has labels
IsOwned(labels) == IsSome(labels) /\ Get(Unwrap(labels), APP) = Some(MARKER)

\* labels.get("has_volume") == "true"
WantsPvc(labels) == Get(Unwrap(labels), HAS_VOLUME) = Some(Str("true"))

\* the name delete_resource hands to delete_pvc_by_name
DeletePvcName(item) == item.name

\* the for loop runs on to the next pod that passes the ownership test
RECURSIVE NextOwned(_, _)
NextOwned(items, i) ==
    IF i > Len(items) THEN i
    ELSE IF IsOwned(items[i].labels) THEN i
    ELSE NextOwned(items, i + 1)

\* continue the loop at item i, or return Ok(()) after the last one
Advance(p, log, i) ==
    LET j == NextOwned(inv[p].items, i)
    IN  IF j > Len(inv[p].items)
        THEN Return(p, log, Ok(None))
        ELSE inv' = [inv EXCEPT ![p].log = log, ![p].pc = "del_pod", ![p].idx = j]

\* an empty listing that is taken for a listing without owned pods
NoMatch_Never(items) == FALSE

\* a listing without owned pods that is taken for an empty listing
NoMatch_NoneOwned(items) == NextOwned(items, 1) > Len(items)

\* if pods.items.is_empty() { return Err(..) }
NoMatch(items) == items = <<>>

\* delete_resource up to the loop: the client, the listing, the empty test
DelList(p, connect_ok, list_ok) ==
    /\ inv[p].pc = "list"
    /\ \E order \in Perms({n \in DOMAIN pods : MatchesAddress(n, inv[p].cmd.name)}) :
       LET address == inv[p].cmd.name
           log == Append(inv[p].log, Call("list", address, list_ok))
           items == [k \in 1..Len(order) |->
                        [name |-> order[k], labels |-> pods[order[k]].labels,
                         volumes |-> pods[order[k]].volumes]]
           j == NextOwned(items, 1)
       IN  IF ~connect_ok THEN Return(p, inv[p].log, Err("client"))
           ELSE IF ~list_ok THEN Return(p, log, Err("list"))
           ELSE IF NoMatch(items) THEN Return(p, log, Err("not_found"))
           ELSE IF j > Len(items)
           THEN inv' = [inv EXCEPT ![p].pc = "done", ![p].log = log, ![p].items = items,
                                   ![p].result = Ok(None)]
           ELSE inv' = [inv EXCEPT ![p].pc = "del_pod", ![p].log = log,
                                   ![p].items = items, ![p].idx = j]
    /\ UNCHANGED <<pods, claims, nInv>>

\* a loop that goes on to the next match after a failed pod delete
DelPod_ContinueOnError(p, ok) ==
    /\ inv[p].pc = "del_pod"
    /\ LET item == inv[p].items[inv[p].idx]
           success == ok /\ item.name \in DOMAIN pods
           log == Append(inv[p].log, Call("delete_pod", item.name, success))
       IN  /\ pods' = IF success THEN Restrict(pods, DOMAIN pods \ {item.name}) ELSE pods
           /\ IF success /\ WantsPvc(item.labels)
              THEN inv' = [inv EXCEPT ![p].log = log, ![p].pc = "del_pvc"]
              ELSE Advance(p, log, inv[p].idx + 1)
    /\ UNCHANGED <<claims, nInv>>

\* delete_pod_by_name(pods_api, &p.name_any()).await? for an owned match
DelPod(p, ok) ==
    /\ inv[p].pc = "del_pod"
    /\ LET item == inv[p].items[inv[p].idx]
           success == ok /\ item.name \in DOMAIN pods
           log == Append(inv[p].log, Call("delete_pod", item.name, success))
       IN  /\ pods' = IF success THEN Restrict(pods, DOMAIN pods \ {item.name}) ELSE pods
           /\ IF ~success THEN Return(p, log, Err("delete_pod"))
              ELSE IF WantsPvc(item.labels)
              THEN inv' = [inv EXCEPT ![p].log = log, ![p].pc = "del_pvc"]
              ELSE Advance(p, log, inv[p].idx + 1)
    /\ UNCHANGED <<claims, nInv>>

\* delete_pvc_by_name(pvc_api, &p.name_any()).await? for a has_volume match
DelPvc(p, ok) ==
    /\ inv[p].pc = "del_pvc"
    /\ LET item == inv[p].items[inv[p].idx]
           name == DeletePvcName(item)
           success == ok /\ name \in claims
           log == Append(inv[p].log, Call("delete_pvc", name, success))
       IN  /\ claims' = IF success THEN claims \ {name} ELSE claims
           /\ IF ~success THEN Return(p, log, Err("delete_pvc"))
              ELSE Advance(p, log, inv[p].idx + 1)
    /\ UNCHANGED <<pods, nInv>>

\* ----------------------------------------------------- the specification
WaitOutcomes == {"ready", "error", "timeout"}

\* invocations run one after the other, each in slot 1
Next ==
    \/ \E cmd \in AddCommands \cup DeleteCommands : Invoke(1, cmd)
    \/ \E name \in DOMAIN pods, status \in Statuses : UpdateStatus(name, status)
    \/ \E connect_ok \in BOOLEAN : AddBuild(1, connect_ok)
    \/ \E ok \in BOOLEAN : AddCreatePvc(1, ok)
    \/ \E ok \in BOOLEAN : AddCreatePod(1, ok)
    \/ \E outcome \in WaitOutcomes : AddWait(1, outcome)
    \/ \E ok \in BOOLEAN : AddGet(1, ok)
    \/ \E ok \in BOOLEAN : CleanupPod(1, ok)
    \/ \E ok \in BOOLEAN : CleanupPvc(1, ok)
    \/ \E connect_ok, list_ok \in BOOLEAN : DelList(1, connect_ok, list_ok)
    \/ \E ok \in BOOLEAN : DelPod(1, ok)
    \/ \E ok \in BOOLEAN : DelPvc(1, ok)

Spec == Init /\ [][Next]_vars

\* one step of the process that runs an Add: a gateway call of it returns,
\* or the timer of the wait fires
AddStep(p) ==
    \/ \E connect_ok \in BOOLEAN : AddBuild(p, connect_ok)
    \/ \E ok \in BOOLEAN : AddCreatePvc(p, ok)
    \/ \E ok \in BOOLEAN : AddCreatePod(p, ok)
    \/ \E outcome \in WaitOutcomes : AddWait(p, outcome)
    \/ \E ok \in BOOLEAN : AddGet(p, ok)
    \/ \E ok \in BOOLEAN : CleanupPod(p, ok)
    \/ \E ok \in BOOLEAN : CleanupPvc(p, ok)

\* one Add on a namespace as earlier runs can have left it: with foreign
\* pods, and with or without the claim of the storage class
InitAdd ==
    /\ \E F \in SUBSET DOMAIN ForeignPods : pods = Restrict(ForeignPods, F)
    /\ \E C \in SUBSET {get_pvc_name(NAMESPACE, "c1")} : claims = C
    /\ inv = [p \in Slots |-> Idle]
    /\ nInv = 0

NextAdd ==
    \/ \E cmd \in AddCommands : nInv = 0 /\ Invoke(1, cmd)
    \/ \E name \in DOMAIN pods, status \in Statuses : UpdateStatus(name, status)
    \/ \E connect_ok \in BOOLEAN : AddBuild(1, connect_ok)
    \/ \E ok \in BOOLEAN : AddCreatePvc(1, ok)
    \/ \E ok \in BOOLEAN : AddCreatePod(1, ok)
    \/ \E outcome \in WaitOutcomes : AddWait(1, outcome)
    \/ \E ok \in BOOLEAN : AddGet(1, ok)
    \/ \E ok \in BOOLEAN : CleanupPod(1, ok)
    \/ \E ok \in BOOLEAN : CleanupPvc(1, ok)

\* the runs in which the process of an Add is not halted for ever: every
\* gateway call returns and the timer runs.  Nothing is asked of the
\* cluster: a pod may stay pending for ever.
SpecFair == InitAdd /\ [][NextAdd]_vars /\ WF_vars(AddStep(1))

\* one Add on a namespace without pods, over the requests of the builder
InitBuilder ==
    /\ pods = Restrict(ForeignPods, {})
    /\ claims = {}
    /\ inv = [p \in Slots |-> Idle]
    /\ nInv = 0

NextBuilder ==
    \/ \E cmd \in BuilderCommands : nInv = 0 /\ Invoke(1, cmd)
    \/ \E name \in DOMAIN pods, status \in Statuses : UpdateStatus(name, status)
    \/ \E connect_ok \in BOOLEAN : AddBuild(1, connect_ok)
    \/ \E ok \in BOOLEAN : AddCreatePvc(1, ok)
    \/ \E ok \in BOOLEAN : AddCreatePod(1, ok)
    \/ \E outcome \in WaitOutcomes : AddWait(1, outcome)
    \/ \E ok \in BOOLEAN : AddGet(1, ok)
    \/ \E ok \in BOOLEAN : CleanupPod(1, ok)
    \/ \E ok \in BOOLEAN : CleanupPvc(1, ok)

SpecBuilder == InitBuilder /\ [][NextBuilder]_vars

\* an Add and, once it has returned, a Delete: the two runs of a round trip
RoundTripCommands ==
    {AddCommand(vol, FALSE, None, labels, <<>>) :
        vol \in {NoVolume, AllVolume},
        labels \in {<<>>, <<<<"app", Eq, "other">>>>, <<<<"k", Eq, "v">>>>,
                    <<<<"has_volume", Eq, "true">>>>}}

NextRoundTrip ==
    \/ \E cmd \in RoundTripCommands : nInv = 0 /\ Invoke(1, cmd)
    \/ \E cmd \in DeleteCommands : nInv = 1 /\ inv[1].pc = "done" /\ Invoke(2, cmd)
    \/ \E name \in DOMAIN pods, status \in Statuses : UpdateStatus(name, status)
    \/ \E connect_ok \in BOOLEAN : AddBuild(1, connect_ok)
    \/ \E ok \in BOOLEAN : AddCreatePvc(1, ok)
    \/ \E ok \in BOOLEAN : AddCreatePod(1, ok)
    \/ \E outcome \in WaitOutcomes : AddWait(1, outcome)
    \/ \E ok \in BOOLEAN : AddGet(1, ok)
    \/ \E ok \in BOOLEAN : CleanupPod(1, ok)
    \/ \E ok \in BOOLEAN : CleanupPvc(1, ok)
    \/ \E connect_ok, list_ok \in BOOLEAN : DelList(2, connect_ok, list_ok)
    \/ \E ok \in BOOLEAN : DelPod(2, ok)
    \/ \E ok \in BOOLEAN : DelPvc(2, ok)

SpecRoundTrip == Init /\ [][NextRoundTrip]_vars

\* Deletes on a namespace where two Adds have succeeded before.  The first
\* Add had no volume, the second may have had one: two Adds with a volume
\* of one class cannot both succeed, the claim name being taken.
EarlierIds == <<91, 92>>

EarlierCommands ==
    <<{AddCommand(NoVolume, FALSE, None, labels, <<>>) :
           labels \in {<<>>, <<<<"has_volume", Eq, "true">>>>}},
      {AddCommand(vol, FALSE, None, <<>>, <<>>) : vol \in {NoVolume, AllVolume}}>>

\* the pod a successful Add leaves in the namespace, running at an address
CreatedPod(id, cmd, ip) ==
    LET additional_volume == HasAllVolumeFields(cmd)
        pvc_name == IF additional_volume
                    THEN get_pvc_name(cmd.namespace, Unwrap(cmd.additional_volume_class))
                    ELSE <<>>
        pod == generate_pod_resource(cmd, cmd.namespace, NewName(id), pvc_name,
                                     additional_volume).pod
    IN  [labels |-> pod.labels, volumes |-> pod.volumes,
         status |-> Some([phase |-> "Running", pod_ip |-> Some(ip)])]

InitDelete ==
    /\ \E F \in SUBSET DOMAIN ForeignPods,
          c1 \in EarlierCommands[1], c2 \in EarlierCommands[2], a1 \in IPs, a2 \in IPs :
          /\ pods = (NewName(EarlierIds[1]) :> CreatedPod(EarlierIds[1], c1, a1))
                    @@ (NewName(EarlierIds[2]) :> CreatedPod(EarlierIds[2], c2, a2))
                    @@ Restrict(ForeignPods, F)
          /\ claims = IF HasAllVolumeFields(c2)
                      THEN {get_pvc_name(c2.namespace, Unwrap(c2.additional_volume_class))}
                      ELSE {}
    /\ inv = [p \in Slots |-> Idle]
    /\ nInv = 0

NextDelete ==
    \/ \E cmd \in DeleteCommands : Invoke(1, cmd)
    \/ \E name \in DOMAIN pods, status \in Statuses : UpdateStatus(name, status)
    \/ \E connect_ok, list_ok \in BOOLEAN : DelList(1, connect_ok, list_ok)
    \/ \E ok \in BOOLEAN : DelPod(1, ok)
    \/ \E ok \in BOOLEAN : DelPvc(1, ok)

SpecDelete == InitDelete /\ [][NextDelete]_vars

\* two Adds with a volume of one namespace and one storage class, started
\* side by side: each step of either process interleaves with the other's
ConcurrentCommands ==
    {AddCommand(AllVolume, FALSE, None, labels, <<>>) :
        labels \in {<<>>, <<<<"k", Eq, "v">>>>}}

NextConcurrent ==
    \/ \E p \in Slots, cmd \in ConcurrentCommands : Invoke(p, cmd)
    \/ \E name \in DOMAIN pods, status \in Statuses : UpdateStatus(name, status)
    \/ \E p \in Slots, connect_ok \in BOOLEAN : AddBuild(p, connect_ok)
    \/ \E p \in Slots, ok \in BOOLEAN : AddCreatePvc(p, ok)
    \/ \E p \in Slots, ok \in BOOLEAN : AddCreatePod(p, ok)
    \/ \E p \in Slots, outcome \in WaitOutcomes : AddWait(p, outcome)
    \/ \E p \in Slots, ok \in BOOLEAN : AddGet(p, ok)
    \/ \E p \in Slots, ok \in BOOLEAN : CleanupPod(p, ok)
    \/ \E p \in Slots, ok \in BOOLEAN : CleanupPvc(p, ok)

SpecConcurrent == InitBuilder /\ [][NextConcurrent]_vars

\* ================================================================ claims
IsAdd(i) == i.pc # "idle" /\ i.cmd.kind = "add"

IsDelete(i) == i.pc # "idle" /\ i.cmd.kind = "delete"

Failed(i) == i.pc = "done" /\ i.result.status = "err"

Succeeded(i) == i.pc = "done" /\ i.result.status = "ok"

CallsOf(i, ops) == {k \in 1..Len(i.log) : i.log[k].op \in ops}

DeleteOps == {"delete_pod", "delete_pvc"}

CreateOps == {"create_pod", "create_pvc"}

Undo(op) == IF op = "create_pod" THEN "delete_pod" ELSE "delete_pvc"

\* all three volume fields of the request are populated
RequestHasVolume(cmd) ==
    Len(cmd.additional_volume_size) + Len(cmd.additional_volume_class)
        + Len(cmd.additional_volume_mount_path) = 3

\* one or two of the three volume fields are populated
RequestHasPartialVolume(cmd) ==
    Len(cmd.additional_volume_size) + Len(cmd.additional_volume_class)
        + Len(cmd.additional_volume_mount_path) \in {1, 2}

\* the claim name the spec gives an Add: resalloc-<namespace>-<storage-class>
RequestClaimName(cmd) ==
    <<"resalloc", cmd.namespace, cmd.additional_volume_class[1]>>

HasMarker(labels) ==
    /\ labels # None
    /\ <<"app">> \in DOMAIN labels[1]
    /\ labels[1][<<"app">>] = <<"resalloc-kubernetes">>

LabelledVolume(labels) ==
    /\ <<"has_volume">> \in DOMAIN labels[1]
    /\ labels[1][<<"has_volume">>] = <<"true">>

\* the claims a listed pod mounts
MountedClaims(item) ==
    IF item.volumes = None THEN {}
    ELSE {v.claimName : v \in {w \in Range(item.volumes[1]) : w.kind = "claim"}}

ItemNamed(i, name) == CHOOSE it \in Range(i.items) : it.name = name

\* C1: an Add that fails after one of its create calls succeeded has issued,
\* after that create, a delete call for every resource it created
C1_FailureCompensatesCreates ==
    \A p \in Slots :
        (IsAdd(inv[p]) /\ Failed(inv[p])) =>
            \A k \in CallsOf(inv[p], CreateOps) :
                inv[p].log[k].ok =>
                    \E j \in CallsOf(inv[p], DeleteOps) :
                        /\ j > k
                        /\ inv[p].log[j].op = Undo(inv[p].log[k].op)
                        /\ inv[p].log[j].name = inv[p].log[k].name

\* C2: every claim delete of an Add names the claim that Add created,
\* resalloc-<namespace>-<storage-class>, and after a rollback whose delete
\* calls all succeeded neither its pod nor its claim is in the cluster
C2_RollbackDeletesCreatedClaim ==
    \A p \in Slots :
        (IsAdd(inv[p]) /\ RequestHasVolume(inv[p].cmd)) =>
            /\ \A k \in CallsOf(inv[p], {"delete_pvc"}) :
                   inv[p].log[k].name = RequestClaimName(inv[p].cmd)
            /\ ( /\ Failed(inv[p])
                 /\ CallsOf(inv[p], {"delete_pod"}) # {}
                 /\ \A k \in CallsOf(inv[p], DeleteOps) : inv[p].log[k].ok )
               => ( /\ inv[p].name \notin DOMAIN pods
                    /\ RequestClaimName(inv[p].cmd) \notin claims )

\* C3: in Delete a claim delete follows the delete of a pod labelled
\* has_volume = "true" and names a claim that pod mounts; the delete of a
\* pod without that label value is not followed by a claim delete
C3_DeleteRemovesThePodsClaim ==
    \A p \in Slots :
        IsDelete(inv[p]) =>
            /\ \A k \in CallsOf(inv[p], {"delete_pvc"}) :
                   /\ k > 1
                   /\ inv[p].log[k - 1].op = "delete_pod"
                   /\ inv[p].log[k].name
                          \in MountedClaims(ItemNamed(inv[p], inv[p].log[k - 1].name))
            /\ \A k \in CallsOf(inv[p], {"delete_pod"}) :
                   ~LabelledVolume(ItemNamed(inv[p], inv[p].log[k].name).labels)
                       => ~(k + 1 \in CallsOf(inv[p], {"delete_pvc"}))

\* C4: an Add in which a rollback delete failed returns an error that
\* carries the original cause of the rollback
C4_RollbackFailureKeepsCause ==
    \A p \in Slots :
        ( /\ IsAdd(inv[p])
          /\ inv[p].pc = "done"
          /\ \E k \in CallsOf(inv[p], DeleteOps) : ~inv[p].log[k].ok )
        => (inv[p].result.status = "err" /\ inv[p].result.err = inv[p].cause)

\* C5: an Add whose wait timed out or returned an error does not succeed,
\* has issued exactly one delete-pod call, for its own pod, and one
\* delete-claim call iff the request has a volume, and fails with the
\* timeout when the timeout was the cause
C5_WaitFailureRollsBackOnce ==
    \A p \in Slots :
        ( /\ IsAdd(inv[p])
          /\ inv[p].pc = "done"
          /\ \E k \in CallsOf(inv[p], {"wait"}) : ~inv[p].log[k].ok )
        => /\ inv[p].result.status = "err"
           /\ Cardinality(CallsOf(inv[p], {"delete_pod"})) = 1
           /\ \A k \in CallsOf(inv[p], {"delete_pod"}) : inv[p].log[k].name = inv[p].name
           /\ Cardinality(CallsOf(inv[p], {"delete_pvc"}))
                  = (IF RequestHasVolume(inv[p].cmd) THEN 1 ELSE 0)
           /\ inv[p].cause = "timeout" => inv[p].result.err = "timeout"

\* C6: every delete call of a Delete names a listed pod that carries
\* app = resalloc-kubernetes, and a finished Delete that listed two pods of
\* which exactly one carries the marker has issued exactly
\* one delete-pod call, for that pod
C6_DeleteOnlyOwned ==
    \A p \in Slots :
        IsDelete(inv[p]) =>
            /\ \A k \in CallsOf(inv[p], DeleteOps) :
                   \E it \in Range(inv[p].items) :
                       it.name = inv[p].log[k].name /\ HasMarker(it.labels)
            /\ ( /\ inv[p].pc = "done"
                 /\ Len(inv[p].items) = 2
                 /\ Cardinality({k \in 1..2 : HasMarker(inv[p].items[k].labels)}) = 1 )
               => /\ Cardinality(CallsOf(inv[p], {"delete_pod"})) = 1
                  /\ \A k \in CallsOf(inv[p], {"delete_pod"}) :
                         HasMarker(ItemNamed(inv[p], inv[p].log[k].name).labels)

\* a Delete that listed an owned and a foreign pod and deleted the owned one
C6_Witness ==
    /\ IsDelete(inv[1])
    /\ inv[1].pc = "done"
    /\ Len(inv[1].items) = 2
    /\ \E k \in 1..2 : ~HasMarker(inv[1].items[k].labels)
    /\ \E k \in CallsOf(inv[1], {"delete_pod"}) : inv[1].log[k].ok

\* C7: in an Add with a volume every create-pod call comes after a
\* create-claim call that succeeded; an Add without a volume issues no
\* create-claim call
C7_ClaimBeforePod ==
    \A p \in Slots :
        IsAdd(inv[p]) =>
            IF RequestHasVolume(inv[p].cmd)
            THEN \A k \in CallsOf(inv[p], {"create_pod"}) :
                     \E j \in CallsOf(inv[p], {"create_pvc"}) : j < k /\ inv[p].log[j].ok
            ELSE CallsOf(inv[p], {"create_pvc"}) = {}

\* an Add with a volume that created its claim and then issued create-pod
C7_Witness ==
    /\ IsAdd(inv[1])
    /\ RequestHasVolume(inv[1].cmd)
    /\ Len(inv[1].log) >= 2
    /\ inv[1].log[1].op = "create_pvc"
    /\ inv[1].log[2].op = "create_pod"

\* C8: an Add with dry_run set never leaves Building for a gateway call:
\* its call log stays empty, it changes nothing in the cluster, and once
\* past Building it has returned success
C8_DryRunContactsNothing ==
    \A p \in Slots :
        (IsAdd(inv[p]) /\ inv[p].cmd.dry_run) =>
            /\ inv[p].log = <<>>
            /\ inv[p].pc \in {"build", "done"}
            /\ inv[p].pc = "done" => inv[p].result.status = "ok"
            /\ NewName(inv[p].id) \notin DOMAIN pods

\* a dry run of a request with a volume that has returned
C8_Witness ==
    /\ IsAdd(inv[1])
    /\ inv[1].cmd.dry_run
    /\ RequestHasVolume(inv[1].cmd)
    /\ inv[1].pc = "done"
    /\ IsSome(inv[1].pvc)

\* C9: an Add whose wait reported the pod ready succeeds with address A
\* exactly when the re-fetch returned a pod with a status whose address is
\* A, and then it has issued no delete call; when the re-fetched pod has no
\* status or no address it has deleted the pod, and the claim if the
\* request has a volume, and fails with the missing address as the cause
C9_ResolveOrRollBack ==
    \A p \in Slots :
        ( /\ IsAdd(inv[p])
          /\ inv[p].pc = "done"
          /\ \E k \in CallsOf(inv[p], {"wait"}) : inv[p].log[k].ok )
        => LET fetched == inv[p].current
               has_ip == /\ fetched # None
                         /\ fetched[1].status # None
                         /\ fetched[1].status[1].pod_ip # None
           IN  /\ inv[p].result.status = "ok" <=> has_ip
               /\ has_ip => /\ inv[p].result.out = fetched[1].status[1].pod_ip
                            /\ CallsOf(inv[p], DeleteOps) = {}
               /\ (fetched # None /\ ~has_ip) =>
                      /\ CallsOf(inv[p], {"delete_pod"}) # {}
                      /\ RequestHasVolume(inv[p].cmd) => CallsOf(inv[p], {"delete_pvc"}) # {}
                      /\ inv[p].result.status = "err"
                      /\ inv[p].result.err = "ip_empty"

\* C10: an Add whose request populates one or two of the three volume
\* fields is rejected in Building with an invalid request error and
\* issues no gateway call
C10_PartialVolumeRejected ==
    \A p \in Slots :
        (IsAdd(inv[p]) /\ RequestHasPartialVolume(inv[p].cmd)) =>
            /\ inv[p].pc \in {"build", "done"}
            /\ inv[p].log = <<>>
            /\ inv[p].pc = "done" =>
                   (inv[p].result.status = "err" /\ inv[p].result.err = "invalid_request")

\* ------------------------------------------- claims on the built manifests
\* an Add that has built its manifests (the builder returned Ok)
HasBuilt(i) == IsAdd(i) /\ i.pc # "build" /\ i.pod # None

EqPositions(e) == {k \in 1..Len(e) : e[k] = "="}

\* the entry has exactly one '=': it splits into exactly two parts
IsPair(e) == Cardinality(EqPositions(e)) = 1

KeyOf(e) == SubSeq(e, 1, (CHOOSE k \in EqPositions(e) : TRUE) - 1)

ValueOf(e) == SubSeq(e, (CHOOSE k \in EqPositions(e) : TRUE) + 1, Len(e))

\* some additional label of the request is a pair with this key
SetsLabel(cmd, key) ==
    \E k \in 1..Len(cmd.additional_labels) :
        IsPair(cmd.additional_labels[k]) /\ KeyOf(cmd.additional_labels[k]) = key

EntriesOf(list, kind) ==
    IF list = None THEN {}
    ELSE {k \in 1..Len(list[1]) : list[1][k].kind = kind}

VolumeShape(i) ==
    LET all3 == RequestHasVolume(i.cmd)
        n == IF all3 THEN 1 ELSE 0
    IN  /\ Cardinality(EntriesOf(i.pod[1].volumes, "claim")) = n
        /\ Cardinality(EntriesOf(i.pod[1].volumeMounts, "claim")) = n
        /\ (i.pvc # None) <=> all3
        /\ CallsOf(i, {"create_pvc"}) # {} => all3
        /\ (all3 /\ i.log # <<>>) => i.log[1].op = "create_pvc"

VolumeLabel(i) ==
    (i.pod[1].labels[1][<<"has_volume">>] = <<"true">>) <=> RequestHasVolume(i.cmd)

\* C11 as stated: for every request the built pod has one claim volume and
\* one claim mount, the label has_volume = "true", and a claim manifest that
\* is built and is the first thing created, iff all three volume fields are
\* present, and none of these otherwise
C11_VolumeIffAllThree ==
    \A p \in Slots : HasBuilt(inv[p]) => (VolumeShape(inv[p]) /\ VolumeLabel(inv[p]))

\* C11 amended: the same, the has_volume label only for requests whose
\* additional labels do not set has_volume themselves
C11_VolumeIffAllThreeUnlessRelabelled ==
    \A p \in Slots :
        HasBuilt(inv[p]) =>
            /\ VolumeShape(inv[p])
            /\ ~SetsLabel(inv[p].cmd, <<"has_volume">>) => VolumeLabel(inv[p])

\* an Add with all three fields and a secret that created claim and pod
C11_Witness ==
    /\ HasBuilt(inv[1])
    /\ RequestHasVolume(inv[1].cmd)
    /\ inv[1].cmd.secret # None
    /\ Len(inv[1].log) >= 2
    /\ inv[1].log[1].op = "create_pvc" /\ inv[1].log[1].ok
    /\ inv[1].log[2].op = "create_pod" /\ inv[1].log[2].ok

\* the request makes the builder raise its error: node selectors are asked
\* for and the rendered pod already has a node selector
BuilderViolation(cmd) ==
    /\ cmd.node_selector # <<>>
    /\ RequestHasVolume(cmd)
    /\ cmd.additional_volume_mount_path = <<InjectedMountPath>>

\* C12: an Add whose request violates the builder's contract never leaves
\* Building for a gateway call: its call log stays empty, it returns the
\* builder's error, and neither its pod nor its claim is in the cluster
C12_BuilderErrorBeforeGateway ==
    \A p \in Slots :
        (IsAdd(inv[p]) /\ BuilderViolation(inv[p].cmd)) =>
            /\ inv[p].pc \in {"build", "done"}
            /\ inv[p].log = <<>>
            /\ inv[p].pc = "done" =>
                   (inv[p].result.status = "err" /\ inv[p].result.err = "node_selector")
            /\ NewName(inv[p].id) \notin DOMAIN pods
            /\ RequestClaimName(inv[p].cmd) \notin claims

\* an Add, not a dry run, that the builder has rejected
C12_Witness ==
    /\ IsAdd(inv[1])
    /\ BuilderViolation(inv[1].cmd)
    /\ ~inv[1].cmd.dry_run
    /\ Failed(inv[1])
    /\ inv[1].pod = None

\* ---------------------------------------------------- claims on Delete
\* the listing of the Delete succeeded and returned no pod
ListedNothing(i) ==
    /\ IsDelete(i)
    /\ i.log # <<>>
    /\ i.log[1].op = "list" /\ i.log[1].ok
    /\ i.items = <<>>

\* C13: a Delete whose listing returned zero pods has failed with the
\* not-found error and has issued no delete call
C13_EmptyListingNotFound ==
    \A p \in Slots :
        ListedNothing(inv[p]) =>
            /\ Failed(inv[p])
            /\ inv[p].result.err = "not_found"
            /\ CallsOf(inv[p], DeleteOps) = {}

\* a Delete for an address that no pod has
C13_Witness ==
    /\ ListedNothing(inv[1])
    /\ \A n \in DOMAIN pods : ~MatchesAddress(n, inv[1].cmd.name)

\* the Add of slot 1 returned an address and the Delete of slot 2, called
\* with that address, has run to its end
RoundTrip ==
    /\ IsAdd(inv[1]) /\ Succeeded(inv[1]) /\ inv[1].result.out # None
    /\ IsDelete(inv[2]) /\ inv[2].pc = "done"
    /\ inv[2].cmd.name = inv[1].result.out[1]

\* the Delete of slot 2 has deleted the pod of the Add of slot 1
DeletedThePod ==
    \E k \in CallsOf(inv[2], {"delete_pod"}) :
        inv[2].log[k].name = inv[1].name /\ inv[2].log[k].ok

\* C14: after an Add with a volume has succeeded and the Delete for its
\* address has deleted its pod, the claim name of that Add is free again:
\* no claim of that name is left to refuse the create-claim of a later Add
\* with the same namespace and storage class
C14_ClaimNameFreeAfterDelete ==
    (RoundTrip /\ RequestHasVolume(inv[1].cmd) /\ DeletedThePod)
        => RequestClaimName(inv[1].cmd) \notin claims

\* ------------------------------------------- claims on labels and volumes
\* the entry splits into exactly two parts and neither is empty
IsFullPair(e) == IsPair(e) /\ KeyOf(e) # <<>> /\ ValueOf(e) # <<>>

\* the keys that the entries splitting into two non-empty parts bring
FullPairKeys(entries) ==
    {KeyOf(entries[k]) : k \in {j \in 1..Len(entries) : IsFullPair(entries[j])}}

\* C15: the label and node selector mappings of a built pod hold, besides
\* the base labels, only keys of entries that split into exactly two
\* non-empty parts ("novalue", "=" and "a=b=c" bring nothing), and such
\* entries never make the build fail
C15_MalformedEntriesDropped ==
    \A p \in Slots :
        (IsAdd(inv[p]) /\ inv[p].pc # "build" /\ ~BuilderViolation(inv[p].cmd)) =>
            /\ inv[p].pod # None
            /\ DOMAIN inv[p].pod[1].labels[1]
                   \subseteq {<<"app">>, <<"has_volume">>}
                                 \cup FullPairKeys(inv[p].cmd.additional_labels)
            /\ inv[p].pod[1].node_selector # None =>
                   DOMAIN inv[p].pod[1].node_selector[1]
                       \subseteq FullPairKeys(inv[p].cmd.node_selector)

\* the positions of the entries that are pairs with this key
PairsWithKey(entries, key) ==
    {k \in 1..Len(entries) : IsPair(entries[k]) /\ KeyOf(entries[k]) = key}

Last(S) == CHOOSE k \in S : \A j \in S : j <= k

BaseLabels(cmd) ==
    (<<"app">> :> MARKER) @@ (<<"has_volume">> :> BoolStr(RequestHasVolume(cmd)))

\* C16: the labels of a built pod are the base labels overwritten by the
\* additional labels that are pairs, in input order: the keys are the base
\* keys and the pairs' keys, a key that pairs set has the value of the last
\* pair that sets it (a base key included), and every other key keeps its
\* base value
C16_LabelsBaseOverwrittenInOrder ==
    \A p \in Slots :
        HasBuilt(inv[p]) =>
            LET entries == inv[p].cmd.additional_labels
                base == BaseLabels(inv[p].cmd)
                labels == inv[p].pod[1].labels[1]
            IN  /\ DOMAIN labels =
                       DOMAIN base \cup {KeyOf(entries[k]) :
                                            k \in {j \in 1..Len(entries) : IsPair(entries[j])}}
                /\ \A key \in DOMAIN labels :
                       labels[key] =
                           IF PairsWithKey(entries, key) # {}
                           THEN ValueOf(entries[Last(PairsWithKey(entries, key))])
                           ELSE base[key]

\* a pod built from two pairs with one key, a pair overriding the marker or
\* a request whose base labels are all kept
C16_Witness ==
    \E p \in Slots :
        /\ HasBuilt(inv[p])
        /\ inv[p].cmd.additional_labels = <<<<"k", "=", "v">>, <<"k", "=", "w">>>>
        /\ inv[p].pod[1].labels[1][<<"k">>] = <<"w">>
        /\ inv[p].pod[1].labels[1][<<"app">>] = MARKER

\* the list holds one secret entry iff s and one claim entry iff v, the
\* secret entry first, and is absent when it would be empty
VolumeList(list, s, v) ==
    IF ~s /\ ~v THEN list = None
    ELSE /\ list # None
         /\ Len(list[1]) = (IF s THEN 1 ELSE 0) + (IF v THEN 1 ELSE 0)
         /\ s => list[1][1].kind = "secret"
         /\ v => list[1][Len(list[1])].kind = "claim"

\* C17: for every combination of secret and volume, the volumes and the
\* volumeMounts of a built pod each hold one secret entry iff a secret is
\* requested and one claim entry iff the request has a volume, the secret
\* entry before the claim entry; with neither, both fields are absent
C17_SecretBeforeClaim ==
    \A p \in Slots :
        HasBuilt(inv[p]) =>
            LET s == IsSome(inv[p].cmd.secret)
                v == RequestHasVolume(inv[p].cmd)
            IN  /\ VolumeList(inv[p].pod[1].volumes, s, v)
                /\ VolumeList(inv[p].pod[1].volumeMounts, s, v)

\* a pod built for a request with a secret and a volume
C17_Witness ==
    \E p \in Slots :
        /\ HasBuilt(inv[p])
        /\ IsSome(inv[p].cmd.secret) /\ RequestHasVolume(inv[p].cmd)
        /\ Len(inv[p].pod[1].volumes[1]) = 2
        /\ Len(inv[p].pod[1].volumeMounts[1]) = 2

\* ------------------------------------------------ claims on Delete's loop
\* the owned pods of the listing that come after item k
LaterMatches(i, k) ==
    {j \in (k + 1)..Len(i.items) : IsOwned(i.items[j].labels)}

\* C18: in a Delete, a failed delete call (pod or claim) is the last call
\* of the invocation, which has returned the error; the pods it deleted
\* before stay deleted and it has created nothing
C18_DeleteStopsAtFirstError ==
    \A p \in Slots :
        IsDelete(inv[p]) =>
            /\ \A k \in CallsOf(inv[p], DeleteOps) :
                   ~inv[p].log[k].ok => (k = Len(inv[p].log) /\ Failed(inv[p]))
            /\ CallsOf(inv[p], CreateOps) = {}
            /\ \A k \in CallsOf(inv[p], {"delete_pod"}) :
                   inv[p].log[k].ok => inv[p].log[k].name \notin DOMAIN pods

\* a Delete that deleted one match, failed on the next delete call and
\* returned with an owned pod of its listing still to come or still there
C18_Witness ==
    \E p \in Slots :
        /\ IsDelete(inv[p]) /\ Failed(inv[p])
        /\ Len(inv[p].log) >= 3
        /\ inv[p].log[2].op = "delete_pod" /\ inv[p].log[2].ok
        /\ ~inv[p].log[Len(inv[p].log)].ok
        /\ \E j \in 1..Len(inv[p].items) :
               /\ IsOwned(inv[p].items[j].labels)
               /\ inv[p].items[j].name # inv[p].log[2].name
               /\ inv[p].items[j].name \in DOMAIN pods

\* ------------------------------------------------ claims on the round trip
\* the Delete of the round trip got the pod of the Add in its listing
ListedThePod ==
    \E j \in 1..Len(inv[2].items) : inv[2].items[j].name = inv[1].name

CalledDeleteForThePod ==
    \E k \in CallsOf(inv[2], {"delete_pod"}) : inv[2].log[k].name = inv[1].name

\* C19 as stated: for every request, whatever its additional labels, a
\* Delete for the address an Add returned, in that namespace, whose listing
\* holds the pod of the Add, issues a delete call for that pod
C19_DeleteFindsAddedPod ==
    (RoundTrip /\ ListedThePod) => CalledDeleteForThePod

\* C19 amended: the same for every request whose additional labels do not
\* set the key app
C19_DeleteFindsAddedPodUnlessRelabelled ==
    (RoundTrip /\ ListedThePod /\ ~SetsLabel(inv[1].cmd, <<"app">>))
        => CalledDeleteForThePod

\* a round trip of a request with an additional label, the pod submitted
\* with the marker, listed by the Delete and deleted by it
C19_Witness ==
    /\ RoundTrip /\ ListedThePod
    /\ inv[1].cmd.additional_labels = <<<<"k", "=", "v">>>>
    /\ HasMarker(inv[1].pod[1].labels)
    /\ DeletedThePod

\* ------------------------------------------------ claims on concurrent Adds
\* the invocation's create of the claim was accepted
PastClaimCreation(i) ==
    \E k \in CallsOf(i, {"create_pvc"}) : i.log[k].ok

RejectedAtClaimCreation(i) ==
    \E k \in CallsOf(i, {"create_pvc"}) : ~i.log[k].ok

\* C20: of two Adds with a volume for one namespace and storage class that
\* run side by side, at most one has its create of the claim accepted; one
\* whose create is rejected has returned that error with this one call in
\* its log - no create of a pod, no delete call - and no pod of its name
\* exists, while the claim of the accepted one stays in the cluster
C20_OneAddPastClaimCreation ==
    /\ ~(PastClaimCreation(inv[1]) /\ PastClaimCreation(inv[2]))
    /\ \A p \in Slots :
           (IsAdd(inv[p]) /\ RejectedAtClaimCreation(inv[p])) =>
               /\ Failed(inv[p]) /\ inv[p].result.err = "create_pvc"
               /\ Len(inv[p].log) = 1
               /\ CallsOf(inv[p], DeleteOps \cup {"create_pod"}) = {}
               /\ inv[p].name \notin DOMAIN pods
    /\ \A p, q \in Slots :
           (PastClaimCreation(inv[p]) /\ RejectedAtClaimCreation(inv[q])) =>
               RequestClaimName(inv[p].cmd) \in claims

\* both Adds are in flight, one had its claim accepted and created its pod,
\* the other was rejected because the name was taken
C20_Witness ==
    \E p, q \in Slots :
        /\ p # q
        /\ PastClaimCreation(inv[p]) /\ inv[p].pc \in {"wait", "get"}
        /\ inv[p].name \in DOMAIN pods
        /\ RejectedAtClaimCreation(inv[q]) /\ inv[q].id > inv[p].id
        /\ inv[q].pvc_name = inv[p].pvc_name

\* ------------------------------------------- claims on the order of calls
\* the pod whose claim a delete-claim call of the invocation is for: the
\* pod of the Add, or a listed pod of the Delete that is owned and labelled
\* as having a volume
IsSandboxOf(i, name) ==
    IF i.cmd.kind = "add" THEN name = i.name
    ELSE \E j \in 1..Len(i.items) :
             /\ i.items[j].name = name
             /\ HasMarker(i.items[j].labels) /\ LabelledVolume(i.items[j].labels)

\* C21: in the rollback of an Add and in a Delete, a delete-claim call comes
\* right after a delete-pod call for its sandbox that succeeded, and no
\* delete-claim call follows a delete-pod call that failed
C21_PodDeleteBeforeClaimDelete ==
    \A p \in Slots :
        inv[p].pc # "idle" =>
            LET log == inv[p].log
            IN  /\ \A k \in CallsOf(inv[p], {"delete_pvc"}) :
                       /\ k > 1
                       /\ log[k - 1].op = "delete_pod" /\ log[k - 1].ok
                       /\ IsSandboxOf(inv[p], log[k - 1].name)
                /\ \A k \in CallsOf(inv[p], {"delete_pod"}) :
                       ~log[k].ok => \A j \in CallsOf(inv[p], {"delete_pvc"}) : j < k

\* a rollback of an Add with a volume that deleted its pod and went on to
\* the delete-claim call
C21_Witness ==
    \E p \in Slots :
        /\ IsAdd(inv[p]) /\ inv[p].additional_volume /\ inv[p].pc = "done"
        /\ CallsOf(inv[p], {"delete_pvc"}) # {}
        /\ inv[p].name \notin DOMAIN pods

\* --------------------------------------------------- claims on termination
\* a wait that was given up is followed at once by the rollback
GivenUpGoesToRollback(i) ==
    \A k \in CallsOf(i, {"wait"}) :
        ~i.log[k].ok =>
            IF k = Len(i.log) THEN i.pc = "cleanup_pod"
            ELSE i.log[k + 1].op = "delete_pod"

\* C22: every Add that runs reaches a terminal state, even when its pod
\* never becomes ready, and an Add whose wait was given up is in the
\* rollback or past its first call
C22_AddTerminates ==
    /\ [](\A p \in Slots : IsAdd(inv[p]) => GivenUpGoesToRollback(inv[p]))
    /\ \A p \in Slots :
           (IsAdd(inv[p]) /\ inv[p].pc # "done") ~> (inv[p].pc = "done")

\* an Add whose pod never ran, whose wait timed out and which has returned
C22_Witness ==
    \E p \in Slots :
        /\ IsAdd(inv[p]) /\ Failed(inv[p])
        /\ inv[p].cause = "timeout"
        /\ \E k \in CallsOf(inv[p], {"wait"}) : ~inv[p].log[k].ok
        /\ \E k \in CallsOf(inv[p], {"delete_pod"}) : inv[p].log[k].ok

\* ------------------------------------------- claims on unowned listings
\* the pods the cluster holds at the address of the Delete
PodsAt(i) == {n \in DOMAIN pods : MatchesAddress(n, i.cmd.name)}

\* the invocation is a Delete whose listing call is answered in this step
ListingAnswered(p) ==
    /\ inv[p].pc = "list"
    /\ inv'[p].log = <<Call("list", inv[p].cmd.name, TRUE)>>

\* C23: a Delete whose listing is answered with at least one pod, none of
\* them with app = resalloc-kubernetes, returns success with the listing as
\* its only call; the not-found error is returned only when the listing is
\* answered with no pod
C23_UnownedListingSucceeds ==
    [][\A p \in Slots :
          ListingAnswered(p) =>
              /\ (PodsAt(inv[p]) # {} /\ \A n \in PodsAt(inv[p]) : ~HasMarker(pods[n].labels))
                     => Succeeded(inv'[p])
              /\ (Failed(inv'[p]) /\ inv'[p].result.err = "not_found")
                     => PodsAt(inv[p]) = {}]_vars

\* a Delete that listed pods, none of them owned, and returned success
\* with no other call
C23_Witness ==
    \E p \in Slots :
        /\ IsDelete(inv[p]) /\ Succeeded(inv[p])
        /\ inv[p].items # <<>>
        /\ \A j \in 1..Len(inv[p].items) : ~HasMarker(inv[p].items[j].labels)
        /\ Len(inv[p].log) = 1

\* ------------------------------------------------------ claims on retries
GatewayOps == {"create_pvc", "create_pod", "wait", "get", "delete_pod", "delete_pvc"}

\* C24: within one Add no gateway call is issued twice: each of create-claim,
\* create-pod, the wait, the re-fetch, delete-pod and delete-claim is in
\* the call log at most once, so a call that failed is not issued again,
\* and a failed create is the last call of the Add
C24_NoRetry ==
    \A p \in Slots :
        IsAdd(inv[p]) =>
            /\ \A k \in 1..Len(inv[p].log) : inv[p].log[k].op \in GatewayOps
            /\ \A op \in GatewayOps : Cardinality(CallsOf(inv[p], {op})) <= 1
            /\ \A k \in CallsOf(inv[p], CreateOps) :
                   ~inv[p].log[k].ok => (k = Len(inv[p].log) /\ Failed(inv[p]))

\* an Add that issued all six calls, one of them failing, and returned
C24_Witness ==
    \E p \in Slots :
        /\ IsAdd(inv[p]) /\ inv[p].pc = "done"
        /\ Len(inv[p].log) = 6
        /\ \E k \in 1..6 : ~inv[p].log[k].ok

====
